---- MODULE Spec2Model ----
(***************************************************************************)
(* Model of anvil's revm Inspector (crates/anvil/src/eth/backend/mem/      *)
(* inspector.rs) and of the IPC launcher of crates/anvil/src/server/mod.rs.*)
(*                                                                         *)
(* An Option<T> is a sequence of length 0 (None) or 1 (Some(x)).           *)
(* Bytes are sequences of byte values.                                     *)
(***************************************************************************)
EXTENDS Integers, Sequences, FiniteSets, TLC

VARIABLES
    tracer,         \* Inspector.tracer : Option<TracingInspector>
    log_collector,  \* Inspector.log_collector : LogCollector
    invoked,        \* observer hooks run by the last Inspector hook, in order
    last,           \* the last operation: its name, arguments, pre-state, result
    sink,           \* lines written by node_info! (the diagnostic sink)
    ipc             \* state of the IPC launcher, its stream and its tasks

vars == <<tracer, log_collector, invoked, last, sink, ipc>>

(***************************************************************************)
(* Bounds of the model.                                                    *)
(***************************************************************************)
MaxTrace == 2       \* events one tracer records before the hooks are cut off
MaxLogs == 3        \* records the log collector holds at most
MaxSink == 6        \* lines the diagnostic sink holds at most
MaxConns == 3       \* IPC connections that arrive at most

(***************************************************************************)
(* Values.                                                                 *)
(***************************************************************************)
None == <<>>
Some(x) == <<x>>

\* Bytes::new()
BytesNew == <<>>

\* Gas::new(limit) of revm: nothing used, nothing refunded.
GasNew(limit) == [limit |-> limit, used |-> 0, memory |-> 0, refunded |-> 0]

HARDHAT_CONSOLE_ADDRESS == "0x000000000000000000636F6e736F6c652e6c6f67"
ContractA == "0xA"

\* topic0 of a console.sol event the decoder knows, and one it does not know
ConsoleTopic == "log(string)"
OtherTopic == "Transfer(address,address,uint256)"

BytesHi == <<104, 105>>
BytesOk == <<111, 107>>
BytesErr == <<101, 114, 114>>
BytesBad == <<255>>

\* The text a byte string stands for (UTF-8), for the byte strings of the model.
Utf8(bytes) ==
    CASE bytes = BytesHi -> "hi"
      [] bytes = BytesOk -> "ok"
      [] bytes = BytesErr -> "err"
      [] OTHER -> "?"

\* Log { address, topics, data, ..Default::default() }
Log(address, topics, data) == [address |-> address, topics |-> topics, data |-> data]

\* The log events the EVM reports in the model: two console events and a foreign one.
LogEvents ==
    { Log(ContractA, <<ConsoleTopic>>, BytesHi),
      Log(ContractA, <<OtherTopic>>, BytesHi),
      Log(ContractA, <<ConsoleTopic>>, BytesOk) }

\* The records a log collector can hold: the events and a converted console call.
LogRecords == LogEvents \cup { Log(HARDHAT_CONSOLE_ADDRESS, <<ConsoleTopic>>, BytesHi) }

CallInputs(contract, gas_limit, input) ==
    [contract |-> contract, gas_limit |-> gas_limit, input |-> input]

CallInputSet ==
    { CallInputs(c, g, i) : c \in {ContractA, HARDHAT_CONSOLE_ADDRESS},
                            g \in {5000, 21000},
                            i \in {BytesHi, BytesBad} }

CreateInputs(gas_limit) == [gas_limit |-> gas_limit, init_code |-> BytesHi]

CreateInputSet == { CreateInputs(g) : g \in {5000, 21000} }

\* What an observer's call or create hook may hand back (its proposed outcome).
Proposals ==
    { <<"Continue", GasNew(0), BytesNew>>,
      <<"Revert", GasNew(0), BytesErr>> }

\* Final outcomes of a call, as the EVM hands them to call_end.
CallOutcomes ==
    { <<"Return", [GasNew(21000) EXCEPT !.used = 20000], BytesOk>>,
      <<"Revert", [GasNew(21000) EXCEPT !.used = 16000], BytesErr>>,
      <<"Stop", GasNew(5000), BytesNew>> }

\* Final outcomes of a create: status, created address, gas, return data.
CreateOutcomes ==
    { <<"Return", Some(ContractA), [GasNew(21000) EXCEPT !.used = 20000], BytesOk>>,
      <<"Revert", None, [GasNew(21000) EXCEPT !.used = 16000], BytesErr>>,
      <<"Return", None, GasNew(5000), BytesNew>> }

(***************************************************************************)
(* The observers.  Both are passive: a hook changes the observer's own     *)
(* state and hands back a proposal, and leaves the event's parameters as   *)
(* they were.                                                              *)
(***************************************************************************)
\* TracingInspectorConfig::all()
TracingInspectorConfigAll ==
    [record_steps |-> TRUE, record_memory_snapshots |-> TRUE,
     record_stack_snapshots |-> TRUE, record_state_diff |-> TRUE,
     exclude_precompile_calls |-> FALSE, record_logs |-> TRUE]

\* TracingInspector::new(config): nothing recorded yet.
TracingInspectorNew(config) == [config |-> config, recorded |-> 0]

\* Any hook of the tracer records the event it is told about.
TracerObserve(t) == [t EXCEPT !.recorded = @ + 1]

\* LogCollector::default()
LogCollectorDefault == [logs |-> <<>>]

\* LogCollector::log pushes the raw record.
CollectorLog(lc, address, topics, data) ==
    [lc EXCEPT !.logs = Append(@, Log(address, topics, data))]

\* The console call input decodes to a console event or it does not.
HardhatDecodable(input) == input \in {BytesHi, BytesOk}

\* LogCollector::call: a call to the console address is converted to a log
\* record; when its input does not decode the collector proposes a revert.
CollectorCall(lc, inputs) ==
    IF inputs.contract = HARDHAT_CONSOLE_ADDRESS
    THEN IF HardhatDecodable(inputs.input)
         THEN [obs |-> [lc EXCEPT !.logs = Append(@,
                            Log(HARDHAT_CONSOLE_ADDRESS, <<ConsoleTopic>>, inputs.input))],
               inputs |-> inputs,
               ret |-> <<"Continue", GasNew(inputs.gas_limit), BytesNew>>]
         ELSE [obs |-> lc, inputs |-> inputs,
               ret |-> <<"Revert", GasNew(inputs.gas_limit), BytesErr>>]
    ELSE [obs |-> lc, inputs |-> inputs,
          ret |-> <<"Continue", GasNew(inputs.gas_limit), BytesNew>>]

\* The tracer's call/create hook: records the frame, proposes p.
TracerEnter(t, inputs, p) == [obs |-> TracerObserve(t), inputs |-> inputs, ret |-> p]

(***************************************************************************)
(* The Inspector.  self is [tracer, log_collector]; a hook yields the new  *)
(* self, the observer hooks it ran (in order) and what it returns.         *)
(***************************************************************************)
Inspector(t, lc) == [tracer |-> t, log_collector |-> lc]

\* #[derive(Default)]
InspectorDefault == Inspector(None, LogCollectorDefault)

Invocation(observer, hook, args) == [observer |-> observer, hook |-> hook, args |-> args]

\* call_inspectors!([&mut self.tracer], |inspector| inspector.<hook>(..)):
\* the tracer's hook runs when the slot holds a tracer.
TracerOnly(self, hook, args) ==
    IF self.tracer # None
    THEN [self |-> [self EXCEPT !.tracer = Some(TracerObserve(self.tracer[1]))],
          invoked |-> <<Invocation("tracer", hook, args)>>]
    ELSE [self |-> self, invoked |-> <<>>]

\* A with_tracing that keeps the tracer the slot already holds.
with_tracing_keeps_existing(self) ==
    IF self.tracer # None THEN self
    ELSE [self EXCEPT !.tracer = Some(TracingInspectorNew(TracingInspectorConfigAll))]

\* fn initialize_interp
initialize_interp(self) == TracerOnly(self, "initialize_interp", <<>>) @@ [ret |-> <<>>]

\* A step that installs a tracer when the slot is empty (get_or_insert_with).
step_installs_tracer(self) ==
    TracerOnly(IF self.tracer = None THEN with_tracing_keeps_existing(self) ELSE self,
               "step", <<>>) @@ [ret |-> <<>>]

\* fn step
step(self) == TracerOnly(self, "step", <<>>) @@ [ret |-> <<>>]

\* fn step_end
step_end(self) == TracerOnly(self, "step_end", <<>>) @@ [ret |-> <<>>]

\* A log hook that tells the log collector before the tracer.
log_collector_first(self, address, topics, data) ==
    LET t == TracerOnly(self, "log", <<address, topics, data>>)
    IN  [self |-> [t.self EXCEPT !.log_collector =
                      CollectorLog(t.self.log_collector, address, topics, data)],
         invoked |-> <<Invocation("log_collector", "log", <<address, topics, data>>)>>
                     \o t.invoked,
         ret |-> <<>>]

\* fn log: call_inspectors!([&mut self.tracer, Some(&mut self.log_collector)], ..)
log(self, address, topics, data) ==
    LET t == TracerOnly(self, "log", <<address, topics, data>>)
    IN  [self |-> [t.self EXCEPT !.log_collector =
                      CollectorLog(t.self.log_collector, address, topics, data)],
         invoked |-> Append(t.invoked,
                            Invocation("log_collector", "log", <<address, topics, data>>)),
         ret |-> <<>>]

\* A call hook that returns what the last observer proposed.
call_returns_proposal(self, inputs, p) ==
    LET t == IF self.tracer # None
             THEN TracerEnter(self.tracer[1], inputs, p)
             ELSE [obs |-> None, inputs |-> inputs, ret |-> <<>>]
        c == CollectorCall(self.log_collector, t.inputs)
    IN  [self |-> Inspector(IF self.tracer # None THEN Some(t.obs) ELSE None, c.obs),
         invoked |-> (IF self.tracer # None
                      THEN <<Invocation("tracer", "call", inputs)>>
                      ELSE <<>>)
                     \o <<Invocation("log_collector", "call", t.inputs)>>,
         ret |-> c.ret]

\* A call hook whose fan-out stops at the first empty slot.
call_stops_at_empty_slot(self, inputs, p) ==
    IF self.tracer = None
    THEN [self |-> self, invoked |-> <<>>,
          ret |-> <<"Continue", GasNew(inputs.gas_limit), BytesNew>>]
    ELSE LET t == TracerEnter(self.tracer[1], inputs, p)
             c == CollectorCall(self.log_collector, t.inputs)
         IN  [self |-> Inspector(Some(t.obs), c.obs),
              invoked |-> <<Invocation("tracer", "call", inputs),
                            Invocation("log_collector", "call", t.inputs)>>,
              ret |-> <<"Continue", GasNew(c.inputs.gas_limit), BytesNew>>]

\* fn call: the tracer (when present) and then the log collector see the call
\* inputs through the same &mut; what they hand back is dropped; the result is
\* built from call.gas_limit as it is after the fan-out.
call(self, inputs, p) ==
    LET t == IF self.tracer # None
             THEN TracerEnter(self.tracer[1], inputs, p)
             ELSE [obs |-> None, inputs |-> inputs, ret |-> <<>>]
        c == CollectorCall(self.log_collector, t.inputs)
    IN  [self |-> Inspector(IF self.tracer # None THEN Some(t.obs) ELSE None, c.obs),
         invoked |-> (IF self.tracer # None
                      THEN <<Invocation("tracer", "call", inputs)>>
                      ELSE <<>>)
                     \o <<Invocation("log_collector", "call", t.inputs)>>,
         ret |-> <<"Continue", GasNew(c.inputs.gas_limit), BytesNew>>]

\* A call_end that returns a fresh Gas of the limit in place of the gas it got.
call_end_fresh_gas(self, inputs, remaining_gas, ret, out) ==
    TracerOnly(self, "call_end", <<inputs, remaining_gas, ret, out>>)
        @@ [ret |-> <<ret, GasNew(remaining_gas.limit), out>>]

\* A call_end that takes the tracer out of its slot (Option::take).
call_end_takes_tracer(self, inputs, remaining_gas, ret, out) ==
    LET r == TracerOnly(self, "call_end", <<inputs, remaining_gas, ret, out>>)
    IN  [self |-> [r.self EXCEPT !.tracer = None], invoked |-> r.invoked,
         ret |-> <<ret, remaining_gas, out>>]

\* A call_end that drops the collected logs when the call reverted.
call_end_rolls_back_logs(self, inputs, remaining_gas, ret, out) ==
    LET r == TracerOnly(self, "call_end", <<inputs, remaining_gas, ret, out>>)
    IN  [self |-> IF ret = "Revert"
                  THEN [r.self EXCEPT !.log_collector = LogCollectorDefault]
                  ELSE r.self,
         invoked |-> r.invoked,
         ret |-> <<ret, remaining_gas, out>>]

\* fn call_end: the tracer gets (inputs, remaining_gas, ret, out.clone());
\* (ret, remaining_gas, out) is returned.
call_end(self, inputs, remaining_gas, ret, out) ==
    TracerOnly(self, "call_end", <<inputs, remaining_gas, ret, out>>)
        @@ [ret |-> <<ret, remaining_gas, out>>]

\* fn create: only the tracer is told; its proposal p is dropped.
create(self, inputs, p) ==
    LET t == IF self.tracer # None
             THEN TracerEnter(self.tracer[1], inputs, p)
             ELSE [obs |-> None, inputs |-> inputs, ret |-> <<>>]
    IN  [self |-> [self EXCEPT !.tracer = IF self.tracer # None THEN Some(t.obs) ELSE None],
         invoked |-> IF self.tracer # None
                     THEN <<Invocation("tracer", "create", inputs)>>
                     ELSE <<>>,
         ret |-> <<"Continue", None, GasNew(t.inputs.gas_limit), BytesNew>>]

\* fn create_end
create_end(self, inputs, status, address, gas, retdata) ==
    TracerOnly(self, "create_end", <<inputs, status, address, gas, retdata>>)
        @@ [ret |-> <<status, address, gas, retdata>>]

\* fn with_tracing(mut self) -> Self
with_tracing(self) ==
    [self EXCEPT !.tracer = Some(TracingInspectorNew(TracingInspectorConfigAll))]

\* fn with_steps_tracing(self) -> Self
with_steps_tracing(self) == with_tracing(self)

(***************************************************************************)
(* The log emission helper.                                                *)
(***************************************************************************)
\* decode_console_log: a record of a known console event decodes to its text.
decode_console_log(l) ==
    IF Len(l.topics) > 0 /\ l.topics[1] = ConsoleTopic /\ Utf8(l.data) # "?"
    THEN Some(Utf8(l.data))
    ELSE None

\* decode_console_logs: logs.iter().filter_map(decode_console_log).collect()
RECURSIVE decode_console_logs(_)
decode_console_logs(logs) ==
    IF logs = <<>> THEN <<>>
    ELSE decode_console_log(Head(logs)) \o decode_console_logs(Tail(logs))

\* node_info!("{}", line): one line appended to the sink.
node_info(out, line) == Append(out, line)

\* for log in decode_console_logs(logs) { node_info!("{}", log); }
RECURSIVE EmitAll(_, _)
EmitAll(out, lines) ==
    IF lines = <<>> THEN out
    ELSE EmitAll(node_info(out, Head(lines)), Tail(lines))

\* A print_logs that emits the first decoded line only.
print_logs_first_only(out, logs) ==
    LET lines == decode_console_logs(logs)
    IN  IF lines = <<>> THEN out ELSE node_info(out, Head(lines))

\* pub fn print_logs(logs: &[Log])
print_logs(out, logs) == EmitAll(out, decode_console_logs(logs))

\* Inspector::print_logs(&self)
Inspector_print_logs(out, self) == print_logs(out, self.log_collector.logs)

(***************************************************************************)
(* The EVM drives one Inspector: the state after Default::default(), the   *)
(* builder and the eight hooks.                                            *)
(***************************************************************************)
Self == Inspector(tracer, log_collector)

IpcIdle ==
    [api |-> "none", result |-> "none", incoming |-> "unopened", accept |-> "none",
     accept_tasks |-> 0, arrivals |-> <<>>, queue |-> <<>>, conn_tasks |-> <<>>,
     finished |-> {}]

Init ==
    /\ tracer = InspectorDefault.tracer
    /\ log_collector = InspectorDefault.log_collector
    /\ invoked = <<>>
    /\ last = [op |-> "default", args |-> <<>>, pre |-> InspectorDefault, ret |-> <<>>]
    /\ sink = <<>>
    /\ ipc = IpcIdle

\* The tracer of the model still has room for one more event.
TracerRoom == IF tracer = None THEN TRUE ELSE tracer[1].recorded < MaxTrace

LogRoom == Len(log_collector.logs) < MaxLogs

Apply(op, args, r) ==
    /\ tracer' = r.self.tracer
    /\ log_collector' = r.self.log_collector
    /\ invoked' = r.invoked
    /\ last' = [op |-> op, args |-> args, pre |-> Self, ret |-> r.ret]
    /\ UNCHANGED <<sink, ipc>>

InitializeInterp == TracerRoom /\ Apply("initialize_interp", <<>>, initialize_interp(Self))

Step == TracerRoom /\ Apply("step", <<>>, step(Self))

StepEnd == TracerRoom /\ Apply("step_end", <<>>, step_end(Self))

OnLog ==
    /\ TracerRoom /\ LogRoom
    /\ \E l \in LogEvents :
         Apply("log", <<l.address, l.topics, l.data>>, log(Self, l.address, l.topics, l.data))

Call ==
    /\ TracerRoom /\ LogRoom
    /\ \E inputs \in CallInputSet, p \in Proposals :
         Apply("call", <<inputs, p>>, call(Self, inputs, p))

CallEnd ==
    /\ TracerRoom
    /\ \E inputs \in {CallInputs(ContractA, 21000, BytesHi)}, o \in CallOutcomes :
         Apply("call_end", <<inputs, o[2], o[1], o[3]>>,
               call_end(Self, inputs, o[2], o[1], o[3]))

Create ==
    /\ TracerRoom
    /\ \E inputs \in CreateInputSet, p \in Proposals :
         Apply("create", <<inputs, p>>, create(Self, inputs, p))

CreateEnd ==
    /\ TracerRoom
    /\ \E inputs \in {CreateInputs(21000)}, o \in CreateOutcomes :
         Apply("create_end", <<inputs, o[1], o[2], o[3], o[4]>>,
               create_end(Self, inputs, o[1], o[2], o[3], o[4]))

WithTracing ==
    Apply("with_tracing", <<>>, [self |-> with_tracing(Self), invoked |-> <<>>, ret |-> <<>>])

WithStepsTracing ==
    Apply("with_steps_tracing", <<>>,
          [self |-> with_steps_tracing(Self), invoked |-> <<>>, ret |-> <<>>])

Next ==
    \/ InitializeInterp
    \/ Step
    \/ StepEnd
    \/ OnLog
    \/ Call
    \/ CallEnd
    \/ Create
    \/ CreateEnd
    \/ WithTracing
    \/ WithStepsTracing

Spec == Init /\ [][Next]_vars

(***************************************************************************)
(* print_logs on the records a log collector holds.                        *)
(***************************************************************************)
RECURSIVE SeqsUpTo(_, _)
SeqsUpTo(S, n) ==
    IF n = 0 THEN { <<>> }
    ELSE LET shorter == SeqsUpTo(S, n - 1)
         IN  shorter \cup { Append(q, x) : q \in shorter, x \in S }

InitLogs ==
    /\ tracer = None
    /\ log_collector \in { [logs |-> q] : q \in SeqsUpTo(LogRecords, MaxLogs) }
    /\ invoked = <<>>
    /\ last = [op |-> "default", args |-> <<>>, pre |-> <<>>, ret |-> <<>>]
    /\ sink = <<>>
    /\ ipc = IpcIdle

PrintLogs ==
    /\ Len(sink) + Len(log_collector.logs) <= MaxSink
    /\ sink' = Inspector_print_logs(sink, Self)
    /\ last' = [op |-> "print_logs", args |-> log_collector.logs, pre |-> sink, ret |-> <<>>]
    /\ UNCHANGED <<tracer, log_collector, invoked, ipc>>

NextLogs == PrintLogs

SpecLogs == InitLogs /\ [][NextLogs]_vars

(***************************************************************************)
(* The IPC launcher: the caller, the endpoint's incoming stream, the       *)
(* accept task and the tasks it spawns, one per connection.                *)
(***************************************************************************)
ConnIds == 1..MaxConns

\* A try_spawn_ipc that spawns the accept task before it opens the stream.
try_spawn_ipc_spawns_first(s, opens) ==
    IF ~opens
    THEN [s EXCEPT !.incoming = "failed", !.result = "Err", !.accept = "running",
                   !.accept_tasks = @ + 1]
    ELSE [s EXCEPT !.incoming = "open", !.accept = "running",
                   !.accept_tasks = @ + 1, !.result = "Ok"]

\* pub fn try_spawn_ipc: ipc.incoming()? returns the error before any task is
\* spawned; otherwise the accept task is spawned and its handle returned.
try_spawn_ipc(s, opens) ==
    IF ~opens
    THEN [s EXCEPT !.incoming = "failed", !.result = "Err"]
    ELSE [s EXCEPT !.incoming = "open", !.accept = "running",
                   !.accept_tasks = @ + 1, !.result = "Ok"]

\* pub fn spawn_ipc: try_spawn_ipc(api, path).expect(..)
spawn_ipc(s, opens) ==
    LET r == try_spawn_ipc(s, opens)
    IN  IF r.result = "Err" THEN [r EXCEPT !.result = "panic"] ELSE r

\* incoming.next(): a connection the stream holds, or the end of an ended
\* stream, or nothing yet.
StreamNext(s) ==
    IF s.queue # <<>> THEN [ready |-> TRUE, item |-> Some(Head(s.queue))]
    ELSE IF s.incoming = "ended" THEN [ready |-> TRUE, item |-> None]
    ELSE [ready |-> FALSE, item |-> None]

\* One turn of `while let Some(stream) = incoming.next().await`: the next
\* connection is taken off the stream and spawned as its own task; when the
\* stream has ended the loop ends and the task is Ok(()).
accept_next(s) ==
    LET n == StreamNext(s)
    IN  IF ~n.ready THEN s
        ELSE IF n.item # None
        THEN [s EXCEPT !.queue = Tail(@), !.conn_tasks = Append(@, n.item[1])]
        ELSE [s EXCEPT !.accept = "Ok"]

InitIpc ==
    /\ tracer = None
    /\ log_collector = LogCollectorDefault
    /\ invoked = <<>>
    /\ last = [op |-> "default", args |-> <<>>, pre |-> <<>>, ret |-> <<>>]
    /\ sink = <<>>
    /\ ipc = IpcIdle

IpcStep(s) == ipc' = s /\ UNCHANGED <<tracer, log_collector, invoked, last, sink>>

SpawnIpc ==
    /\ ipc.api = "none"
    /\ \E opens \in BOOLEAN : IpcStep(spawn_ipc([ipc EXCEPT !.api = "spawn_ipc"], opens))

TrySpawnIpc ==
    /\ ipc.api = "none"
    /\ \E opens \in BOOLEAN :
         IpcStep(try_spawn_ipc([ipc EXCEPT !.api = "try_spawn_ipc"], opens))

\* A client connects: the endpoint's stream has one more connection to yield.
Connect ==
    /\ ipc.incoming = "open"
    /\ Len(ipc.arrivals) < MaxConns
    /\ \E c \in ConnIds :
         /\ \A i \in 1..Len(ipc.arrivals) : ipc.arrivals[i] # c
         /\ IpcStep([ipc EXCEPT !.arrivals = Append(@, c), !.queue = Append(@, c)])

\* The endpoint shuts down: the stream yields what it holds and then ends.
EndIncoming ==
    /\ ipc.incoming = "open"
    /\ IpcStep([ipc EXCEPT !.incoming = "ended"])

\* The accept task is polled and incoming.next() is ready.
AcceptNext ==
    /\ ipc.accept = "running"
    /\ StreamNext(ipc).ready
    /\ IpcStep(accept_next(ipc))

\* A connection's task runs to its end.
ConnectionDone ==
    /\ \E i \in 1..Len(ipc.conn_tasks) :
         /\ ipc.conn_tasks[i] \notin ipc.finished
         /\ IpcStep([ipc EXCEPT !.finished = @ \cup {ipc.conn_tasks[i]}])

NextIpc ==
    \/ SpawnIpc
    \/ TrySpawnIpc
    \/ Connect
    \/ EndIncoming
    \/ AcceptNext
    \/ ConnectionDone

SpecIpc == InitIpc /\ [][NextIpc]_vars

(***************************************************************************)
(* Properties.                                                             *)
(***************************************************************************)
Hooks ==
    {"initialize_interp", "step", "step_end", "log", "call", "call_end",
     "create", "create_end"}

IsPrefix(a, b) == Len(a) <= Len(b) /\ SubSeq(b, 1, Len(a)) = a

\* The observers and hooks that ran, without their arguments.
Ran == [i \in 1..Len(invoked) |-> <<invoked[i].observer, invoked[i].hook>>]

TracerWasPresent == last.pre.tracer # None

\* C1: call and create return (Continue, a fresh Gas of the gas limit the
\* inputs had at entry, empty bytes) and, for create, no created address,
\* whatever the observers proposed.
C1_EntryHooksNeutral ==
    /\ last.op = "call" =>
         last.ret = <<"Continue",
                      [limit |-> last.args[1].gas_limit, used |-> 0, memory |-> 0,
                       refunded |-> 0],
                      <<>> >>
    /\ last.op = "create" =>
         last.ret = <<"Continue", <<>>,
                      [limit |-> last.args[1].gas_limit, used |-> 0, memory |-> 0,
                       refunded |-> 0],
                      <<>> >>

\* A call with a tracer that proposes a revert and a log collector that
\* proposes a revert too (an undecodable console call).
C1_Witness ==
    /\ last.op = "call"
    /\ TracerWasPresent
    /\ last.args[2][1] = "Revert"
    /\ last.args[1].contract = HARDHAT_CONSOLE_ADDRESS
    /\ last.args[1].input = BytesBad
    /\ last.args[1].gas_limit = 21000

\* C2: call_end and create_end return the outcome they were given.
C2_ExitHooksPassThrough ==
    /\ last.op = "call_end" => last.ret = <<last.args[3], last.args[2], last.args[4]>>
    /\ last.op = "create_end" =>
         last.ret = <<last.args[2], last.args[3], last.args[4], last.args[5]>>

\* A reverting call_end with gas partly used, seen by a tracer.
C2_Witness ==
    /\ last.op = "call_end"
    /\ last.args[3] = "Revert"
    /\ last.args[2].used > 0
    /\ last.args[4] = BytesErr
    /\ TracerWasPresent
    /\ Len(invoked) = 1

\* C3 as stated: each of the eight hooks runs the tracer's hook when a tracer
\* is present and then the log collector's hook, once each.
C3_EveryHookReachesBothObservers ==
    last.op \in Hooks =>
        Ran = (IF TracerWasPresent THEN << <<"tracer", last.op>> >> ELSE <<>>)
              \o << <<"log_collector", last.op>> >>

\* C3 amended: each of the eight hooks runs the tracer's hook exactly once when
\* a tracer is present and never when it is absent; log and call then run the
\* log collector's hook exactly once, after the tracer's; the other six hooks
\* do not run the log collector.
C3_FanOutPerHook ==
    last.op \in Hooks =>
        Ran = (IF TracerWasPresent THEN << <<"tracer", last.op>> >> ELSE <<>>)
              \o (IF last.op \in {"log", "call"}
                  THEN << <<"log_collector", last.op>> >>
                  ELSE <<>>)

\* A log event with both observers, and the tracer recorded it.
C3_Witness ==
    /\ last.op = "log"
    /\ TracerWasPresent
    /\ Len(invoked) = 2
    /\ tracer[1].recorded = last.pre.tracer[1].recorded + 1

\* The parameters the last hook was invoked with, as the observers see them.
EventParams == IF last.op = "call" THEN last.args[1] ELSE last.args

\* C4: log and call run the tracer's hook (when present) once and before the
\* log collector's hook, which runs once; with no tracer only the log
\* collector's hook runs and the tracer slot stays empty; each observer gets
\* the parameters the Inspector got.
C4_LogAndCallOrder ==
    last.op \in {"log", "call"} =>
        IF TracerWasPresent
        THEN invoked = << Invocation("tracer", last.op, EventParams),
                          Invocation("log_collector", last.op, EventParams) >>
        ELSE /\ invoked = << Invocation("log_collector", last.op, EventParams) >>
             /\ tracer = None

\* A log event with no tracer: the log collector alone took the record.
C4_Witness ==
    /\ last.op = "log"
    /\ ~TracerWasPresent
    /\ Len(invoked) = 1
    /\ log_collector.logs =
         Append(last.pre.log_collector.logs, Log(last.args[1], last.args[2], last.args[3]))

\* The positions of the decodable records of a sequence of logs.
Decodable(logs) == { i \in 1..Len(logs) : decode_console_log(logs[i]) # None }

\* C5: print_logs appends to the sink one line per decodable record, in the
\* records' order: the k-th new line is the text of the k-th decodable record.
C5_PrintLogsEmitsDecodable ==
    last.op = "print_logs" =>
        LET logs == last.args
            D == Decodable(logs)
        IN  /\ IsPrefix(last.pre, sink)
            /\ Len(sink) = Len(last.pre) + Cardinality(D)
            /\ \A i \in D :
                 sink[Len(last.pre) + Cardinality({ j \in D : j <= i })]
                     = Utf8(logs[i].data)

\* Three records of which the second does not decode: two lines, first and third.
C5_Witness ==
    /\ last.op = "print_logs"
    /\ Len(last.args) = 3
    /\ Decodable(last.args) = {1, 3}
    /\ last.args[1] # last.args[3]
    /\ sink = <<Utf8(last.args[1].data), Utf8(last.args[3].data)>>

\* C6: with_tracing and with_steps_tracing leave a fresh tracer with the
\* all-enabled configuration in the slot, keep the log collector, and applying
\* with_tracing once more changes nothing.
C6_WithTracingInstallsFresh ==
    last.op \in {"with_tracing", "with_steps_tracing"} =>
        /\ tracer = << [config |-> TracingInspectorConfigAll, recorded |-> 0] >>
        /\ \A f \in DOMAIN tracer[1].config \ {"exclude_precompile_calls"} :
             tracer[1].config[f]
        /\ log_collector = last.pre.log_collector
        /\ with_tracing(Self) = Self

\* with_tracing on an Inspector whose tracer had recorded events and whose
\* log collector holds records.
C6_Witness ==
    /\ last.op = "with_tracing"
    /\ TracerWasPresent
    /\ last.pre.tracer[1].recorded > 0
    /\ Len(log_collector.logs) > 0

\* C7: initialize_interp, step and step_end with no tracer run no observer
\* hook and leave the Inspector as it was.
C7_NoTracerNoOp ==
    (last.op \in {"initialize_interp", "step", "step_end"} /\ ~TracerWasPresent) =>
        /\ invoked = <<>>
        /\ Self = last.pre
        /\ tracer = None

\* A step with no tracer on an Inspector that holds collected logs.
C7_Witness ==
    /\ last.op = "step"
    /\ ~TracerWasPresent
    /\ Len(log_collector.logs) = 2

\* C8: the launcher fails exactly when the incoming stream does not open
\* (spawn_ipc by a panic, try_spawn_ipc by Err) and then no accept task
\* exists; otherwise there is exactly one accept task, the connection tasks
\* are the arrivals in their order, and the accept task is Ok only when the
\* stream has ended and every arrival has its task.
C8_IpcLauncher ==
    /\ ipc.api = "spawn_ipc" => ipc.result \in {"Ok", "panic"}
    /\ ipc.api = "try_spawn_ipc" => ipc.result \in {"Ok", "Err"}
    /\ ipc.result \in {"panic", "Err"} <=> ipc.incoming = "failed"
    /\ ipc.incoming = "failed" => ipc.accept = "none" /\ ipc.accept_tasks = 0
    /\ ipc.result = "Ok" <=> ipc.incoming \in {"open", "ended"}
    /\ ipc.result = "Ok" => ipc.accept \in {"running", "Ok"} /\ ipc.accept_tasks = 1
    /\ IsPrefix(ipc.conn_tasks, ipc.arrivals)
    /\ ipc.arrivals = ipc.conn_tasks \o ipc.queue
    /\ ipc.accept = "Ok" => ipc.incoming = "ended" /\ ipc.conn_tasks = ipc.arrivals

\* spawn_ipc opened the stream, three connections arrived and got their tasks
\* in order, the stream ended and the accept task finished.
C8_Witness ==
    /\ ipc.api = "spawn_ipc"
    /\ ipc.result = "Ok"
    /\ ipc.accept = "Ok"
    /\ Len(ipc.arrivals) = MaxConns
    /\ ipc.conn_tasks = ipc.arrivals

\* C9: a default Inspector has no tracer and no logs; a hook never changes
\* whether the tracer slot is occupied; the slot becomes occupied only by
\* with_tracing or with_steps_tracing and is never emptied.
C9_SlotPresenceFixed ==
    /\ last.op = "default" => tracer = None /\ log_collector.logs = <<>>
    /\ last.op \in Hooks => (tracer = None <=> last.pre.tracer = None)
    /\ (tracer # None /\ last.pre.tracer = None) =>
           last.op \in {"with_tracing", "with_steps_tracing"}
    /\ last.pre.tracer # None => tracer # None

\* A create_end on an Inspector with a tracer: the tracer is still there.
C9_Witness ==
    /\ last.op = "create_end"
    /\ TracerWasPresent
    /\ tracer # None

\* C10: every step leaves the collected logs as they were or with records
\* appended: the logs before are a prefix of the logs after.
C10_LogsOnlyGrow ==
    [][IsPrefix(log_collector.logs, log_collector'.logs)]_vars

\* A reverting call_end after two records were collected: both are kept.
C10_Witness ==
    /\ last.op = "call_end"
    /\ last.args[3] = "Revert"
    /\ Len(log_collector.logs) = 2
    /\ log_collector = last.pre.log_collector

====
